---- MODULE Spec2Model ----
(***************************************************************************)
(* Credential & step-up authentication core of 3sistercompany/TD.          *)
(*                                                                         *)
(*   src/src/app/api/admin/otp/route.ts   the OTP route handler POST, its  *)
(*                                        module-level otpStore, its own   *)
(*                                        hashPassword (SHA-256 hex)       *)
(*   src/unnamed/part_000                 the auth library: PBKDF2         *)
(*                                        hashPassword / verifyPassword    *)
(*   src/src/lib/db/index.ts              queryOne / execute               *)
(*                                                                         *)
(* POST is an async function: several invocations live in one isolate and  *)
(* interleave at their await points, each synchronous segment between two  *)
(* awaits running to completion.  One action of the model is one such      *)
(* segment of one invocation.                                              *)
(***************************************************************************)
EXTENDS Integers, Sequences, FiniteSets, TLC

(***************************************************************************)
(* Bounds of the model.                                                    *)
(***************************************************************************)
\* number of POST invocations that can be in flight at once
NProcs == 2
\* the clock is sampled at k * OTP_TTL + j ms, k <= MaxPeriods, j <= MaxSlack
MaxPeriods == 1

MaxSlack == 1
\* number of distinct new passwords a client may send
NSecrets == 2

Procs == 1..NProcs
Secrets == 1..NSecrets

(***************************************************************************)
(* Strings are sequences of one-character strings.                         *)
(***************************************************************************)
HexDigits == <<"0", "1", "2", "3", "4", "5", "6", "7", "8", "9",
               "a", "b", "c", "d", "e", "f">>

DecDigits == <<"0", "1", "2", "3", "4", "5", "6", "7", "8", "9">>

\* b.toString(16).padStart(2, '0') for one byte b  (route.ts:33, part_000:42-43)
ByteToHex(b) == <<HexDigits[(b \div 16) + 1], HexDigits[(b % 16) + 1]>>

RECURSIVE BytesToHex(_)
\* hashArray.map(b => b.toString(16).padStart(2, '0')).join('')
BytesToHex(bs) ==
    IF bs = <<>> THEN <<>> ELSE ByteToHex(Head(bs)) \o BytesToHex(Tail(bs))

RECURSIVE NumberToString(_)
\* String(n) for a non-negative integer n: its decimal digits, no padding
NumberToString(n) ==
    IF n < 10 THEN <<DecDigits[n + 1]>>
    ELSE NumberToString(n \div 10) \o <<DecDigits[(n % 10) + 1]>>

(***************************************************************************)
(* Digests.  SHA-256 and PBKDF2-HMAC-SHA256 are modelled by collision-free *)
(* toy digests of one byte over the secrets and salts of the model; a      *)
(* secret is the number that stands for its UTF-8 encoding.                *)
(***************************************************************************)
\* crypto.subtle.digest('SHA-256', data)
Sha256(secret) == <<(secret * 37 + 11) % 256>>

\* crypto.subtle.deriveBits({name: 'PBKDF2', salt, iterations: 100000, ...})
Pbkdf2(secret, salt) ==
    <<(secret * 101 + (IF salt = <<>> THEN 0 ELSE Head(salt) * 29) + 7) % 256>>

(***************************************************************************)
(* Password hashing.                                                       *)
(***************************************************************************)
\* route.ts hashPassword: unsalted SHA-256 of the password, hex encoded
hashPassword(password) == BytesToHex(Sha256(password))

\* authHashPassword writing the derived key before the salt
authHashPassword_keyFirst(password, salt) ==
    BytesToHex(Pbkdf2(password, salt)) \o <<"$">> \o BytesToHex(salt)

\* part_000 hashPassword with the salt drawn by crypto.getRandomValues:
\* `${saltHex}$${hashHex}`
authHashPassword(password, salt) ==
    BytesToHex(salt) \o <<"$">> \o BytesToHex(Pbkdf2(password, salt))

\* storedHash.startsWith('$2')
IsLegacyHash(storedHash) ==
    Len(storedHash) >= 2 /\ storedHash[1] = "$" /\ storedHash[2] = "2"

RECURSIVE UpToDollar(_)
\* the characters of s before its first '$' (all of s when it has none)
UpToDollar(s) ==
    IF s = <<>> \/ Head(s) = "$" THEN <<>>
    ELSE <<Head(s)>> \o UpToDollar(Tail(s))

\* storedHash.split('$'): the sequence of its '$'-separated parts
RECURSIVE SplitDollar(_)
SplitDollar(s) ==
    LET first == UpToDollar(s)
    IN  IF Len(first) = Len(s) THEN <<first>>
        ELSE <<first>> \o SplitDollar(SubSeq(s, Len(first) + 2, Len(s)))

\* value of one hexadecimal digit, -1 for any other character
HexVal(c) ==
    IF \E i \in 1..16 : HexDigits[i] = c
    THEN (CHOOSE i \in 1..16 : HexDigits[i] = c) - 1
    ELSE -1

\* parseInt(byte, 16) of a two-character string stored into a Uint8Array:
\* NaN (no leading hex digit) is stored as 0
ParseHexByte(pair) ==
    IF HexVal(pair[1]) < 0 THEN 0
    ELSE IF HexVal(pair[2]) < 0 THEN HexVal(pair[1])
    ELSE HexVal(pair[1]) * 16 + HexVal(pair[2])

RECURSIVE HexToBytes(_)
\* saltHex.match(/.{2}/g).map(byte => parseInt(byte, 16)); a trailing odd
\* character is dropped by the match
HexToBytes(hex) ==
    IF Len(hex) < 2 THEN <<>>
    ELSE <<ParseHexByte(SubSeq(hex, 1, 2))>> \o HexToBytes(SubSeq(hex, 3, Len(hex)))

\* verifyPassword accepting a stored value that lacks a part
verifyPassword_lenient(password, storedHash) ==
    IF IsLegacyHash(storedHash) THEN FALSE
    ELSE LET parts   == SplitDollar(storedHash)
             saltHex == parts[1]
             hashHex == IF Len(parts) >= 2 THEN parts[2] ELSE <<>>
         IN  IF saltHex = <<>> \/ hashHex = <<>> THEN TRUE
             ELSE IF Len(saltHex) < 2 THEN FALSE
             ELSE BytesToHex(Pbkdf2(password, HexToBytes(saltHex))) = hashHex

\* part_000 verifyPassword.  A throw inside the try block (match returning
\* null on a one-character salt) is caught and yields false.
verifyPassword(password, storedHash) ==
    IF IsLegacyHash(storedHash) THEN FALSE
    ELSE LET parts   == SplitDollar(storedHash)
             saltHex == parts[1]
             hashHex == IF Len(parts) >= 2 THEN parts[2] ELSE <<>>
         IN  IF saltHex = <<>> \/ hashHex = <<>> THEN FALSE
             ELSE IF Len(saltHex) < 2 THEN FALSE
             ELSE BytesToHex(Pbkdf2(password, HexToBytes(saltHex))) = hashHex

(***************************************************************************)
(* The OTP route: constants, inputs and the pure parts of the handler.     *)
(***************************************************************************)
\* const ADMIN_EMAIL = 'info@tdlogistics.co'
ADMIN_EMAIL == "info@tdlogistics.co"

\* 10 * 60 * 1000, the lifetime of a challenge in ms
OTP_TTL == 600000

\* the modulus and offset of generateOTP
OTP_SPAN == 900000

OTP_BASE == 100000

\* a falsy string field of the request body (absent or the empty string)
Missing == ""

\* a falsy otp: the empty string
NoCode == <<>>

\* a falsy newPassword; the secrets a client sends are 1..NSecrets
NoSecret == 0

\* A Uint32 is held as its two 16-bit halves <<high, low>>, its value being
\* high * 65536 + low: TLC's integers stop short of 2^32.
\* values crypto.getRandomValues may put in array[0]: 0 and 2^32 - 1
RandomValues == {<<0, 0>>, <<65535, 65535>>}

\* array[0] % m for m < 2^23, in steps that stay below 2^31
Uint32Mod(r, m) == (((((r[1] * 256) % m) * 256) % m) + r[2]) % m

\* generateOTP without the offset
generateOTP_noBase(r) == NumberToString(Uint32Mod(r, OTP_SPAN))

\* generateOTP with array[0] = r
generateOTP(r) == NumberToString(OTP_BASE + Uint32Mod(r, OTP_SPAN))

Emails == {ADMIN_EMAIL, "someone@example.com"}

Codes == {generateOTP(r) : r \in RandomValues}

\* the request bodies a client sends
Bodies ==
    [action : {"request", "unknown", Missing}, email : Emails \cup {Missing},
     otp : {NoCode}, newPassword : {NoSecret}]
    \cup
    [action : {"verify"}, email : Emails,
     otp : Codes \cup {NoCode}, newPassword : {NoSecret}]
    \cup
    [action : {"changePassword"}, email : Emails,
     otp : Codes \cup {NoCode}, newPassword : Secrets \cup {NoSecret}]

\* the locals of an invocation that has not read its body
NoBody ==
    [action |-> Missing, email |-> Missing, otp |-> NoCode, newPassword |-> NoSecret]

\* passwordHash before hashPassword has resolved
NoHash == <<>>

(***************************************************************************)
(* otpStore is a Map: a function whose domain is the set of keys it holds. *)
(***************************************************************************)
\* otpStore.has(email)
mapHas(store, email) == email \in DOMAIN store

\* otpStore.set(email, value)
mapSet(store, email, value) ==
    [e \in DOMAIN store \cup {email} |-> IF e = email THEN value ELSE store[e]]

\* a delete that removes nothing
mapDelete_keeps(store, email) == store

\* otpStore.delete(email)
mapDelete(store, email) == [e \in DOMAIN store \ {email} |-> store[e]]

\* newChallenge without the 10 minutes
newChallenge_noTTL(code, t) ==
    [otp |-> code, expires |-> t, verified |-> FALSE]

\* the value stored by case 'request' (route.ts:90-94)
newChallenge(code, t) ==
    [otp |-> code, expires |-> t + OTP_TTL, verified |-> FALSE]

\* markVerified that flips the flag instead of setting it
markVerified_toggles(stored) == [stored EXCEPT !.verified = ~@]

\* markVerified that also restarts the 10 minutes
markVerified_extends(stored) ==
    [stored EXCEPT !.verified = TRUE, !.expires = @ + OTP_TTL]

\* stored.verified = true (route.ts:137)
markVerified(stored) == [stored EXCEPT !.verified = TRUE]

\* isExpired with the comparison turned round
isExpired_inverted(stored, t) == t < stored.expires

\* Date.now() > stored.expires
isExpired(stored, t) == t > stored.expires

\* verifyCheck without the comparison of the codes
verifyCheck_anyCode(store, email, otp, t) ==
    IF ~mapHas(store, email) THEN "NoChallenge"
    ELSE IF isExpired(store[email], t) THEN "ExpiredCode"
    ELSE "OK"

\* the checks of case 'verify' after the otp presence check (route.ts:113-134)
verifyCheck(store, email, otp, t) ==
    IF ~mapHas(store, email) THEN "NoChallenge"
    ELSE IF isExpired(store[email], t) THEN "ExpiredCode"
    ELSE IF store[email].otp # otp THEN "CodeMismatch"
    ELSE "OK"

\* changePasswordCheck without the test of stored.verified
changePasswordCheck_unverified(store, email, otp, t) ==
    IF ~mapHas(store, email) THEN "NotVerified"
    ELSE IF isExpired(store[email], t) THEN "ExpiredSession"
    ELSE IF store[email].otp # otp THEN "CodeMismatch"
    ELSE "OK"

\* changePasswordCheck without the comparison of the code
changePasswordCheck_anyCode(store, email, otp, t) ==
    IF ~mapHas(store, email) \/ ~store[email].verified THEN "NotVerified"
    ELSE IF isExpired(store[email], t) THEN "ExpiredSession"
    ELSE "OK"

\* the checks of case 'changePassword' after the presence check
\* (route.ts:154-175)
changePasswordCheck(store, email, otp, t) ==
    IF ~mapHas(store, email) \/ ~store[email].verified THEN "NotVerified"
    ELSE IF isExpired(store[email], t) THEN "ExpiredSession"
    ELSE IF store[email].otp # otp THEN "CodeMismatch"
    ELSE "OK"

(***************************************************************************)
(* The account store: each table is the set of its rows for admin         *)
(* accounts, a row being its email and password_hash.                      *)
(***************************************************************************)
\* the credential the account holds before any password change
InitialCredential == authHashPassword(1, <<171>>)

AdminRow == [email |-> ADMIN_EMAIL, password_hash |-> InitialCredential]

\* SELECT ... WHERE email = ?: the rows that match
selectRows(table, email) == {r \in table : r.email = email}

\* UPDATE ... SET password_hash = ? WHERE email = ?
updateRows(table, email, hash) ==
    {IF r.email = email THEN [r EXCEPT !.password_hash = hash] ELSE r : r \in table}

(***************************************************************************)
(* The auth library (part_000): session tokens and the session cookie.     *)
(* jose is an external library: SignJWT and jwtVerify are modelled by      *)
(* their documented behaviour.  A compact JWS is the record of the number  *)
(* of its dot-separated parts, its claims and its signature; HMAC-SHA256   *)
(* is a perfect MAC, the record of the key and of what it signs.           *)
(***************************************************************************)
\* the key encoded from process.env.JWT_SECRET or its default
JWT_SECRET == "JWT_SECRET"

\* const TOKEN_NAME = 'auth_token'
TOKEN_NAME == "auth_token"

\* const TOKEN_EXPIRY = '24h', in seconds
TOKEN_EXPIRY == 86400

\* the UserPayload values tokens are issued for
UserPayloads ==
    {[id |-> 1, email |-> ADMIN_EMAIL, role |-> "admin", name |-> "Admin"],
     [id |-> 2, email |-> "someone@example.com", role |-> "customer", name |-> "Someone"]}

\* the values crypto.randomUUID() returns
UUIDs == {"uuid-a", "uuid-b"}

\* the values of process.env.NODE_ENV
NodeEnvs == {"production", "development", "test"}

\* jose's epoch(date): Math.floor(date.getTime() / 1000)
epoch(t) == t \div 1000

\* the signature of the protected header and the claims under key
hmac(key, alg, claims) == [key |-> key, alg |-> alg, claims |-> claims]

\* a function returns value v
Returned(v) == [thrown |-> FALSE, value |-> v]

\* a function throws
Thrown == [thrown |-> TRUE, value |-> {}]

\* generateToken with a validity of one hour
generateToken_1h(payload, t, uuid) ==
    LET claims == [id |-> payload.id, email |-> payload.email,
                   role |-> payload.role, name |-> payload.name,
                   iat |-> epoch(t), exp |-> epoch(t) + 3600, jti |-> uuid]
    IN  [parts |-> 3, claims |-> claims, mac |-> hmac(JWT_SECRET, "HS256", claims)]

\* generateToken(payload) called at time t, crypto.randomUUID() returning uuid
generateToken(payload, t, uuid) ==
    LET claims == [id |-> payload.id, email |-> payload.email,
                   role |-> payload.role, name |-> payload.name,
                   iat |-> epoch(t), exp |-> epoch(t) + TOKEN_EXPIRY, jti |-> uuid]
    IN  [parts |-> 3, claims |-> claims, mac |-> hmac(JWT_SECRET, "HS256", claims)]

\* the claims of a string that is no JWT
NoClaims ==
    [id |-> 0, email |-> Missing, role |-> Missing, name |-> Missing,
     iat |-> 0, exp |-> 0, jti |-> Missing]

\* the empty string as a cookie value
EmptyToken == [parts |-> 0, claims |-> NoClaims, mac |-> hmac(Missing, Missing, NoClaims)]

\* jwtVerify(token, key) at time t: "payload" when it resolves, else the
\* error it rejects with
jwtVerify(token, key, t) ==
    IF token.parts # 3 THEN "JWSInvalid"
    ELSE IF token.mac # hmac(key, "HS256", token.claims)
    THEN "JWSSignatureVerificationFailed"
    ELSE IF token.claims.exp <= epoch(t) THEN "JWTExpired"
    ELSE "payload"

\* verifyToken without its catch block
verifyToken_uncaught(token, t) ==
    IF jwtVerify(token, JWT_SECRET, t) = "payload" THEN Returned({token.claims})
    ELSE Thrown

\* verifyToken(token) at time t: the set of the payload, empty for null
verifyToken(token, t) ==
    IF jwtVerify(token, JWT_SECRET, t) = "payload" THEN Returned({token.claims})
    ELSE Returned({})

\* the cookies of the jar under the name of the session cookie
authCookies(jar) == {c \in jar : c.name = TOKEN_NAME}

\* setAuthCookie with sameSite 'lax'
setAuthCookie_lax(jar, token, nodeEnv) ==
    (jar \ authCookies(jar)) \cup
    {[name |-> TOKEN_NAME, value |-> token, httpOnly |-> TRUE,
      secure |-> (nodeEnv = "production"), sameSite |-> "lax", path |-> "/",
      maxAge |-> 60 * 60 * 24]}

\* setAuthCookie(token) with process.env.NODE_ENV = nodeEnv: the jar after
\* cookieStore.set
setAuthCookie(jar, token, nodeEnv) ==
    (jar \ authCookies(jar)) \cup
    {[name |-> TOKEN_NAME, value |-> token, httpOnly |-> TRUE,
      secure |-> (nodeEnv = "production"), sameSite |-> "strict", path |-> "/",
      maxAge |-> 60 * 60 * 24]}

\* clearAuthCookie(): the jar after cookieStore.delete
clearAuthCookie(jar) == jar \ authCookies(jar)

\* getCurrentUser() at time t, the request carrying the cookies of jar
getCurrentUser(jar, t) ==
    IF authCookies(jar) = {} THEN Returned({})
    ELSE LET token == (CHOOSE c \in authCookies(jar) : TRUE).value
         IN  IF token = EmptyToken THEN Returned({})
             ELSE verifyToken(token, t)

\* the stored hash and the secret it was derived from, none yet
NoCredential == [password |-> NoSecret, hash |-> <<>>]

\* the latest call of verifyPassword, none yet
NoVerdict == [password |-> NoSecret, stored |-> NoCredential, value |-> FALSE]

\* the latest call of getCurrentUser, none yet
NoUser == [jar |-> {}, outcome |-> Returned({})]

(***************************************************************************)
(* State.                                                                  *)
(***************************************************************************)
VARIABLES
    now,           \* Date.now(), in ms since the isolate started
    otpStore,      \* the module-level Map of route.ts:11
    users,         \* table users, rows with role = 'admin'
    adminUsers,    \* table admin_users
    pc,            \* pc[p]: the await at which invocation p is suspended
    body,          \* body[p]: { action, email, otp, newPassword } of p
    passwordHash,  \* passwordHash[p]: the local of case 'changePassword'
    response,      \* the response returned by the latest step, if any
    sent,          \* the code handed to sendOTPEmail by the latest step, if any
    env,           \* process.env.NODE_ENV
    cookies,       \* the cookie jar of the browser, as the responses set it
    credential,    \* the stored hash of an account, and the secret behind it
    verdict,       \* the latest call of verifyPassword and its result
    user           \* the latest call of getCurrentUser and its outcome

\* the state of the OTP route
routeVars == <<otpStore, users, adminUsers, pc, body, passwordHash, response, sent>>

\* the state the auth library works on
libVars == <<env, cookies, credential, verdict, user>>

vars == <<now, routeVars, libVars>>

\* the latest step returned no response
NoResponse == [action |-> Missing, status |-> 0, msg |-> "none"]

\* the isolate has loaded route.ts and no invocation runs
InitRoute ==
    /\ now = 0
    /\ otpStore = <<>>
    /\ pc = [p \in Procs |-> "idle"]
    /\ body = [p \in Procs |-> NoBody]
    /\ passwordHash = [p \in Procs |-> NoHash]
    /\ response = NoResponse
    /\ sent = NoCode

\* no function of the auth library has been called
InitLib ==
    /\ cookies = {}
    /\ credential = NoCredential
    /\ verdict = NoVerdict
    /\ user = NoUser

Init ==
    /\ InitRoute
    /\ users \in {{}, {AdminRow}}
    /\ adminUsers \in {{}, {AdminRow}}
    /\ InitLib
    /\ env = "production"

(***************************************************************************)
(* return NextResponse.json(...): invocation p ends with this response.    *)
(* msg names the message text of the response:                             *)
(*   Incomplete 400, NotRegistered 404, OtpRequired 400, NoChallenge 400,  *)
(*   ExpiredCode 400, ExpiredSession 400, CodeMismatch 400,                *)
(*   NotVerified 400, UnknownAction 400, ServerError 500,                  *)
(*   OtpSent 200, Verified 200, PasswordChanged 200                        *)
(***************************************************************************)
Respond(p, action, status, msg) ==
    /\ pc' = [pc EXCEPT ![p] = "idle"]
    /\ body' = [body EXCEPT ![p] = NoBody]
    /\ passwordHash' = [passwordHash EXCEPT ![p] = NoHash]
    /\ response' = [action |-> action, status |-> status, msg |-> msg]
    /\ sent' = NoCode

\* the catch block of POST (route.ts:207-213)
ServerError(p, action) == Respond(p, action, 500, "ServerError")

\* invocation p suspends at an await without returning
Suspend(p, at) ==
    /\ pc' = [pc EXCEPT ![p] = at]
    /\ response' = NoResponse
    /\ sent' = NoCode
    /\ UNCHANGED <<body, passwordHash>>

\* POST is called and suspends at `await request.json()`
Start(p) ==
    /\ pc[p] = "idle"
    /\ UNCHANGED libVars
    /\ Suspend(p, "json")
    /\ UNCHANGED <<now, otpStore, users, adminUsers>>

\* the handler goes on to look the account up
Proceed == [status |-> 0, msg |-> "none"]

\* the rejection of an account the account store does not hold
\* (route.ts:78-83)
notInStore == [status |-> 404, msg |-> "NotRegistered"]

\* parseOutcome answering an email other than the admin's in its own words
parseOutcome_leaks(b) ==
    IF b.action = Missing \/ b.email = Missing
    THEN [status |-> 400, msg |-> "Incomplete"]
    ELSE IF b.email # ADMIN_EMAIL THEN [status |-> 403, msg |-> "NotAllowed"]
    ELSE Proceed

\* the validation of the body (route.ts:47-63): the rejection it returns, or
\* Proceed
parseOutcome(b) ==
    IF b.action = Missing \/ b.email = Missing
    THEN [status |-> 400, msg |-> "Incomplete"]
    ELSE IF b.email # ADMIN_EMAIL THEN [status |-> 404, msg |-> "NotRegistered"]
    ELSE Proceed

\* request.json() settles: route.ts:44-69, up to the first queryOne
ParseBody(p) ==
    /\ pc[p] = "json"
    /\ UNCHANGED libVars
    /\ UNCHANGED <<now, otpStore, users, adminUsers>>
    /\ \/ ServerError(p, Missing)
       \/ \E b \in Bodies :
            IF parseOutcome(b) # Proceed
            THEN Respond(p, b.action, parseOutcome(b).status, parseOutcome(b).msg)
            ELSE /\ pc' = [pc EXCEPT ![p] = "q_users"]
                 /\ body' = [body EXCEPT ![p] = b]
                 /\ response' = NoResponse
                 /\ sent' = NoCode
                 /\ UNCHANGED passwordHash

\* case 'request' that keeps a challenge already held and sends the new code
CaseRequest_keepsHeld(p) ==
    \E r \in RandomValues :
        /\ otpStore' = IF mapHas(otpStore, body[p].email) THEN otpStore
                       ELSE mapSet(otpStore, body[p].email,
                                   newChallenge(generateOTP(r), now))
        /\ sent' = generateOTP(r)
        /\ pc' = [pc EXCEPT ![p] = "send"]
        /\ response' = NoResponse
        /\ UNCHANGED <<body, passwordHash>>

\* case 'request' (route.ts:87-97), up to `await sendOTPEmail`: the new code
\* is stored, then handed to sendOTPEmail
CaseRequest(p) ==
    \E r \in RandomValues :
        /\ otpStore' = mapSet(otpStore, body[p].email, newChallenge(generateOTP(r), now))
        /\ sent' = generateOTP(r)
        /\ pc' = [pc EXCEPT ![p] = "send"]
        /\ response' = NoResponse
        /\ UNCHANGED <<body, passwordHash>>

\* case 'verify' (route.ts:105-144)
CaseVerify(p) ==
    LET email == body[p].email
        check == verifyCheck(otpStore, email, body[p].otp, now)
    IN  IF body[p].otp = NoCode
        THEN Respond(p, "verify", 400, "OtpRequired") /\ UNCHANGED otpStore
        ELSE IF check = "ExpiredCode"
        THEN /\ otpStore' = mapDelete(otpStore, email)
             /\ Respond(p, "verify", 400, check)
        ELSE IF check = "OK"
        THEN /\ otpStore' = mapSet(otpStore, email, markVerified(otpStore[email]))
             /\ Respond(p, "verify", 200, "Verified")
        ELSE Respond(p, "verify", 400, check) /\ UNCHANGED otpStore

\* case 'changePassword' (route.ts:146-178), up to `await hashPassword`
CaseChangePassword(p) ==
    LET email == body[p].email
        check == changePasswordCheck(otpStore, email, body[p].otp, now)
    IN  IF body[p].otp = NoCode \/ body[p].newPassword = NoSecret
        THEN Respond(p, "changePassword", 400, "Incomplete") /\ UNCHANGED otpStore
        ELSE IF check = "ExpiredSession"
        THEN /\ otpStore' = mapDelete(otpStore, email)
             /\ Respond(p, "changePassword", 400, check)
        ELSE IF check = "OK"
        THEN Suspend(p, "hash") /\ UNCHANGED otpStore
        ELSE Respond(p, "changePassword", 400, check) /\ UNCHANGED otpStore

\* switch (action) (route.ts:86-206)
Dispatch(p) ==
    IF body[p].action = "request" THEN CaseRequest(p)
    ELSE IF body[p].action = "verify" THEN CaseVerify(p)
    ELSE IF body[p].action = "changePassword" THEN CaseChangePassword(p)
    ELSE Respond(p, body[p].action, 400, "UnknownAction") /\ UNCHANGED otpStore

\* the users query settles (route.ts:66-76)
QueryUsers(p) ==
    /\ pc[p] = "q_users"
    /\ UNCHANGED libVars
    /\ UNCHANGED <<now, users, adminUsers>>
    /\ \/ ServerError(p, body[p].action) /\ UNCHANGED otpStore
       \/ IF selectRows(users, body[p].email) # {}
          THEN Dispatch(p)
          ELSE Suspend(p, "q_admin") /\ UNCHANGED otpStore

\* the admin_users query settles (route.ts:73-86)
QueryAdmin(p) ==
    /\ pc[p] = "q_admin"
    /\ UNCHANGED libVars
    /\ UNCHANGED <<now, users, adminUsers>>
    /\ \/ ServerError(p, body[p].action) /\ UNCHANGED otpStore
       \/ IF selectRows(adminUsers, body[p].email) # {}
          THEN Dispatch(p)
          ELSE Respond(p, body[p].action, notInStore.status, notInStore.msg)
               /\ UNCHANGED otpStore

\* sendOTPEmail settles (route.ts:97-102)
SendDone(p) ==
    /\ pc[p] = "send"
    /\ UNCHANGED libVars
    /\ Respond(p, "request", 200, "OtpSent")
    /\ UNCHANGED <<now, otpStore, users, adminUsers>>

\* hashPassword settles and the users UPDATE is issued (route.ts:178-184),
\* or it rejects and the catch block answers
HashDone(p) ==
    /\ pc[p] = "hash"
    /\ UNCHANGED libVars
    /\ UNCHANGED <<now, otpStore, users, adminUsers>>
    /\ \/ ServerError(p, "changePassword")
       \/ /\ pc' = [pc EXCEPT ![p] = "exec_users"]
          /\ passwordHash' = [passwordHash EXCEPT ![p] = hashPassword(body[p].newPassword)]
          /\ response' = NoResponse
          /\ sent' = NoCode
          /\ UNCHANGED body

\* ExecUsersDone that stops after the users UPDATE: the challenge is cleared
\* and success returned without the admin_users UPDATE
ExecUsersDone_single(p) ==
    /\ pc[p] = "exec_users"
    /\ UNCHANGED libVars
    /\ UNCHANGED <<now, adminUsers>>
    /\ \/ ServerError(p, "changePassword") /\ UNCHANGED <<otpStore, users>>
       \/ /\ users' = updateRows(users, body[p].email, passwordHash[p])
          /\ otpStore' = mapDelete(otpStore, body[p].email)
          /\ Respond(p, "changePassword", 200, "PasswordChanged")

\* the users UPDATE settles and the admin_users UPDATE is issued
\* (route.ts:181-190)
ExecUsersDone(p) ==
    /\ pc[p] = "exec_users"
    /\ UNCHANGED libVars
    /\ UNCHANGED <<now, otpStore, adminUsers>>
    /\ \/ ServerError(p, "changePassword") /\ UNCHANGED users
       \/ /\ users' = updateRows(users, body[p].email, passwordHash[p])
          /\ Suspend(p, "exec_admin")

\* ExecAdminDone clearing the challenge when the UPDATE rejects as well
ExecAdminDone_clearsOnError(p) ==
    /\ pc[p] = "exec_admin"
    /\ UNCHANGED libVars
    /\ UNCHANGED <<now, users>>
    /\ \/ /\ ServerError(p, "changePassword")
          /\ otpStore' = mapDelete(otpStore, body[p].email)
          /\ UNCHANGED adminUsers
       \/ /\ adminUsers' = updateRows(adminUsers, body[p].email, passwordHash[p])
          /\ otpStore' = mapDelete(otpStore, body[p].email)
          /\ Respond(p, "changePassword", 200, "PasswordChanged")

\* the admin_users UPDATE settles (route.ts:187-198)
ExecAdminDone(p) ==
    /\ pc[p] = "exec_admin"
    /\ UNCHANGED libVars
    /\ UNCHANGED <<now, users>>
    /\ \/ ServerError(p, "changePassword") /\ UNCHANGED <<otpStore, adminUsers>>
       \/ /\ adminUsers' = updateRows(adminUsers, body[p].email, passwordHash[p])
          /\ otpStore' = mapDelete(otpStore, body[p].email)
          /\ Respond(p, "changePassword", 200, "PasswordChanged")

\* the instants at which the clock is observed
Times == {k * OTP_TTL + j : k \in 0..MaxPeriods, j \in 0..MaxSlack}

\* time passes between two segments
Tick ==
    /\ \E t \in Times :
        /\ t > now
        /\ now' = t
    /\ response' = NoResponse
    /\ sent' = NoCode
    /\ UNCHANGED <<otpStore, users, adminUsers, pc, body, passwordHash>>
    /\ UNCHANGED libVars

Next ==
    \/ \E p \in Procs :
        \/ Start(p)
        \/ ParseBody(p)
        \/ QueryUsers(p)
        \/ QueryAdmin(p)
        \/ SendDone(p)
        \/ HashDone(p)
        \/ ExecUsersDone(p)
        \/ ExecAdminDone(p)
    \/ Tick

Spec == Init /\ [][Next]_vars

(***************************************************************************)
(* generateOTP over the range of the random source.  A Uint32 is the pair  *)
(* of its high and low 16 bits; the samples lie at both ends of the range  *)
(* and on both sides of the multiples of OTP_SPAN.                         *)
(***************************************************************************)
Uint32Samples ==
    {<<h, l>> : h \in {0, 13, 14, 32768, 65535},
                l \in {0, 1, 48031, 48032, 48033, 65535}}

\* case 'request' for ADMIN_EMAIL (route.ts:87-95) with array[0] = r: the
\* code is generated and stored
RequestCode ==
    /\ \E r \in Uint32Samples :
        /\ otpStore' = mapSet(otpStore, ADMIN_EMAIL, newChallenge(generateOTP(r), now))
        /\ sent' = generateOTP(r)
    /\ response' = NoResponse
    /\ UNCHANGED <<now, users, adminUsers, pc, body, passwordHash>>
    /\ UNCHANGED libVars

NextOtp == RequestCode \/ Tick

SpecOtp == Init /\ [][NextOtp]_vars

(***************************************************************************)
(* Password hashing (part_000): hashPassword writes the stored hash of an  *)
(* account, verifyPassword is called on what the account store holds.      *)
(***************************************************************************)
\* the salts crypto.getRandomValues draws, one byte standing for the 16
Salts == {<<0>>, <<10>>, <<171>>, <<255>>}

\* a bcrypt hash of the former runtime
LegacyStored == {<<"$", "2", "b", "$", "1", "0", "$", "a", "b">>, <<"$", "2">>}

\* stored values with no salt part, no hash part, no separator, or nothing
MalformedStored ==
    {<<"$", "c", "b">>, <<"a", "b", "$">>, <<"a", "b", "c", "b">>, <<"$">>, <<>>}

\* a stored value whose salt part is one character: match() returns null
OddStored == {<<"a", "$", "c", "b">>}

\* hashPassword(password) resolves and the account stores the result
HashPassword ==
    /\ \E s \in Secrets, salt \in Salts :
        credential' = [password |-> s, hash |-> authHashPassword(s, salt)]
    /\ UNCHANGED <<now, routeVars, env, cookies, verdict, user>>

\* the account holds a value hashPassword did not write
LoadStored ==
    /\ \E h \in LegacyStored \cup MalformedStored \cup OddStored :
        credential' = [password |-> NoSecret, hash |-> h]
    /\ UNCHANGED <<now, routeVars, env, cookies, verdict, user>>

\* verifyPassword(password, storedHash) resolves
VerifyPassword ==
    /\ \E s \in Secrets :
        verdict' = [password |-> s, stored |-> credential,
                    value |-> verifyPassword(s, credential.hash)]
    /\ UNCHANGED <<now, routeVars, env, cookies, credential, user>>

NextPassword == HashPassword \/ LoadStored \/ VerifyPassword

SpecPassword == Init /\ [][NextPassword]_vars

(***************************************************************************)
(* Sessions (part_000): generateToken, setAuthCookie, getCurrentUser and   *)
(* clearAuthCookie.  The browser holds the cookies the responses set; a    *)
(* request carries the cookies its client chooses to send.                 *)
(***************************************************************************)
\* the instants at which the clock is read, in ms: around the issue of a
\* token and around the end of its validity
SessionTimes ==
    {0, 999, 1000, TOKEN_EXPIRY * 1000 - 1, TOKEN_EXPIRY * 1000,
     TOKEN_EXPIRY * 1000 + 999, TOKEN_EXPIRY * 1000 + 1000}

\* the session cookie of jar with value v in place of its own
withValue(jar, v) == {[c EXCEPT !.value = v] : c \in authCookies(jar)}

\* what a client can make of token without the key: other claims under the
\* old signature, a signature under a guessed key, a truncated string
Tampered(token) ==
    {[token EXCEPT !.claims.role = "admin", !.claims.id = 1],
     [token EXCEPT !.claims.exp = token.claims.exp + TOKEN_EXPIRY],
     [token EXCEPT !.mac = hmac("guess", "HS256", token.claims)],
     [token EXCEPT !.parts = 2],
     EmptyToken}

\* the cookies a request can carry when the browser holds jar
RequestJars(jar) ==
    {jar, {}} \cup
    {withValue(jar, v) : v \in UNION {Tampered(c.value) : c \in authCookies(jar)}}

InitSession ==
    /\ InitRoute
    /\ users = {AdminRow}
    /\ adminUsers = {AdminRow}
    /\ InitLib
    /\ env \in NodeEnvs

\* generateToken(payload) then setAuthCookie(token), as a login does
SetAuthCookie ==
    /\ \E payload \in UserPayloads, uuid \in UUIDs :
        cookies' = setAuthCookie(cookies, generateToken(payload, now, uuid), env)
    /\ user' = NoUser
    /\ UNCHANGED <<now, routeVars, env, credential, verdict>>

\* clearAuthCookie()
ClearAuthCookie ==
    /\ cookies # {}
    /\ cookies' = clearAuthCookie(cookies)
    /\ user' = NoUser
    /\ UNCHANGED <<now, routeVars, env, credential, verdict>>

\* getCurrentUser() resolves in a request
GetCurrentUser ==
    /\ \E jar \in RequestJars(cookies) :
        user' = [jar |-> jar, outcome |-> getCurrentUser(jar, now)]
    /\ UNCHANGED <<now, routeVars, env, cookies, credential, verdict>>

\* time passes between two requests
TickSession ==
    /\ \E t \in SessionTimes :
        /\ t > now
        /\ now' = t
    /\ user' = NoUser
    /\ UNCHANGED <<routeVars, env, cookies, credential, verdict>>

NextSession == SetAuthCookie \/ ClearAuthCookie \/ GetCurrentUser \/ TickSession

SpecSession == InitSession /\ [][NextSession]_vars

(***************************************************************************)
(* Vocabulary of the properties.                                           *)
(***************************************************************************)
\* invocation p runs the switch of route.ts:86 in this step
Dispatches(p) ==
    /\ pc[p] \in {"q_users", "q_admin"}
    /\ pc'[p] \notin {"q_users", "q_admin"}
    /\ response'.msg \notin {"ServerError", "NotRegistered"}

\* p runs case 'request' in this step
RequestStep(p) == Dispatches(p) /\ body[p].action = "request"

\* p runs case 'verify' with a code in this step
VerifyStep(p) ==
    Dispatches(p) /\ body[p].action = "verify" /\ body[p].otp # NoCode

\* p runs case 'changePassword' with a code and a new password in this step
ChangePasswordStep(p) ==
    /\ Dispatches(p)
    /\ body[p].action = "changePassword"
    /\ body[p].otp # NoCode
    /\ body[p].newPassword # NoSecret

\* p has issued a credential UPDATE that has not settled
Updating(p) == pc[p] \in {"exec_users", "exec_admin"}

\* the challenge of ADMIN_EMAIL is held, and is live at time t
Held == mapHas(otpStore, ADMIN_EMAIL)

Entry == otpStore[ADMIN_EMAIL]

Live(t) == Held /\ t <= Entry.expires

\* the account store is not written in this step
NoUpdate == users' = users /\ adminUsers' = adminUsers

\* the rows holding a credential written by changePassword
ChangedRows ==
    {r \in users \cup adminUsers : r.password_hash # InitialCredential}

(***************************************************************************)
(* C1  Password change is gated by the step-up proof: an invocation of     *)
(* changePassword goes on to hash and to issue its credential UPDATEs only *)
(* if, in the step of its check, a challenge is held for the identity with *)
(* verified = true, the time is not past its expires and the supplied code *)
(* equals the stored one; the UPDATEs are issued by no other path, and the *)
(* account store changes only by an UPDATE so issued.                      *)
(***************************************************************************)
C1_Gated ==
    [][/\ \A p \in Procs :
            /\ (pc'[p] = "hash" /\ pc[p] # "hash") =>
                   /\ ChangePasswordStep(p)
                   /\ mapHas(otpStore, body[p].email)
                   /\ otpStore[body[p].email].verified
                   /\ now <= otpStore[body[p].email].expires
                   /\ otpStore[body[p].email].otp = body[p].otp
            /\ (pc'[p] = "exec_users" /\ pc[p] # "exec_users") => pc[p] = "hash"
            /\ (pc'[p] = "exec_admin" /\ pc[p] # "exec_admin") => pc[p] = "exec_users"
       /\ ~NoUpdate => \E p \in Procs : Updating(p)
      ]_vars

\* C1 witness: an UPDATE has been applied and the next one is in flight
C1_Witness ==
    \E p \in Procs : pc[p] = "exec_admin" /\ ChangedRows # {}

(***************************************************************************)
(* C2  OTP lifecycle: a changePassword with the right code on a verified,  *)
(* live challenge passes its check; when it returns success the challenge  *)
(* entry is gone; and a changePassword that finds no entry returns         *)
(* NotVerified, goes no further and writes no credential.                  *)
(***************************************************************************)
C2_Lifecycle ==
    [][\A p \in Procs :
         /\ (ChangePasswordStep(p) /\ Live(now) /\ Entry.verified
                /\ Entry.otp = body[p].otp) => pc'[p] = "hash"
         /\ (pc[p] # "idle" /\ pc'[p] = "idle" /\ response'.msg = "PasswordChanged") =>
                ~mapHas(otpStore', body[p].email)
         /\ (ChangePasswordStep(p) /\ ~Held) =>
                /\ response' = [action |-> "changePassword", status |-> 400,
                                msg |-> "NotVerified"]
                /\ pc'[p] = "idle"
                /\ NoUpdate
                /\ otpStore' = otpStore
      ]_vars

\* C2 witness: the password has been changed, the entry is consumed and a
\* further changePassword has just been refused
C2_Witness ==
    /\ response.action = "changePassword"
    /\ response.msg = "NotVerified"
    /\ ~Held
    /\ ChangedRows # {}

C4_Atomic ==
    \A p, q \in Procs :
        (/\ p # q
         /\ pc[p] = "exec_admin"
         /\ pc[q] = "exec_admin"
         /\ body[p].email = body[q].email
         /\ body[p].otp = body[q].otp) => FALSE

(***************************************************************************)
(* C5  Every credential that changePassword writes to the account store is *)
(* one that the password hashing service verifies: verifyPassword accepts  *)
(* the new password against it and rejects every other password.           *)
(***************************************************************************)
C5_Verifiable ==
    [][\A p \in Procs :
         /\ (pc[p] = "exec_users" /\ pc'[p] = "exec_admin") =>
                \A r \in selectRows(users', body[p].email) :
                    /\ verifyPassword(body[p].newPassword, r.password_hash)
                    /\ \A other \in (1..(NSecrets + 1)) \ {body[p].newPassword} :
                           ~verifyPassword(other, r.password_hash)
         /\ (pc[p] = "exec_admin" /\ response'.msg = "PasswordChanged") =>
                \A r \in selectRows(adminUsers', body[p].email) :
                    /\ verifyPassword(body[p].newPassword, r.password_hash)
                    /\ \A other \in (1..(NSecrets + 1)) \ {body[p].newPassword} :
                           ~verifyPassword(other, r.password_hash)
      ]_vars

\* the state of the identity's challenge: NONE, REQUESTED or VERIFIED
ChallengeState(store) ==
    IF ~mapHas(store, ADMIN_EMAIL) THEN "NONE"
    ELSE IF store[ADMIN_EMAIL].verified THEN "VERIFIED"
    ELSE "REQUESTED"

(***************************************************************************)
(* C6  The verified flag of a held challenge turns true only in a verify   *)
(* whose code equals the stored code at a time not past expires; an entry  *)
(* is created unverified; and the challenge state moves only               *)
(* NONE -> REQUESTED (request), REQUESTED -> VERIFIED (verify),            *)
(* VERIFIED -> NONE (a changePassword returning success), any state ->     *)
(* REQUESTED (request), and REQUESTED or VERIFIED -> NONE once the time is *)
(* past expires; never NONE -> VERIFIED.                                   *)
(***************************************************************************)
C6_Transitions ==
    [][LET from == ChallengeState(otpStore)
           to   == ChallengeState(otpStore')
       IN  /\ (to = "VERIFIED" /\ from # "VERIFIED") =>
                  /\ from = "REQUESTED"
                  /\ \E p \in Procs :
                        /\ VerifyStep(p)
                        /\ body[p].otp = Entry.otp
                        /\ now <= Entry.expires
                        /\ otpStore' = mapSet(otpStore, ADMIN_EMAIL,
                                              [Entry EXCEPT !.verified = TRUE])
           /\ (to = "REQUESTED" /\ otpStore' # otpStore) =>
                  \E p \in Procs : RequestStep(p)
           /\ (from = "NONE" /\ to # "NONE") => to = "REQUESTED"
           /\ (from = "REQUESTED" /\ to = "NONE") => now > Entry.expires
           /\ (from = "VERIFIED" /\ to = "NONE") =>
                  \/ now > Entry.expires
                  \/ response'.msg = "PasswordChanged"
      ]_vars

(***************************************************************************)
(* C7  Wrong-code verify: a verify on a live challenge with a code that    *)
(* differs from the stored one returns CodeMismatch and leaves otpStore    *)
(* as it was; a verify on a live challenge with the stored code returns    *)
(* success and leaves the challenge verified.                              *)
(***************************************************************************)
C7_WrongCode ==
    [][\A p \in Procs :
         /\ (VerifyStep(p) /\ Live(now) /\ body[p].otp # Entry.otp) =>
                /\ response' = [action |-> "verify", status |-> 400,
                                msg |-> "CodeMismatch"]
                /\ otpStore' = otpStore
         /\ (VerifyStep(p) /\ Live(now) /\ body[p].otp = Entry.otp) =>
                /\ response' = [action |-> "verify", status |-> 200,
                                msg |-> "Verified"]
                /\ mapHas(otpStore', ADMIN_EMAIL)
                /\ otpStore'[ADMIN_EMAIL].verified
      ]_vars

\* C7 witness: a verify has just been refused for its code, and the
\* challenge is still held, live and unverified
C7_Witness ==
    /\ response.action = "verify"
    /\ response.msg = "CodeMismatch"
    /\ Live(now)
    /\ ~Entry.verified

(***************************************************************************)
(* C8  Re-request invalidates the prior code: when a request made while a  *)
(* challenge of code C1 is held sends another code C2, the checks of       *)
(* verify then refuse C1 and accept C2; and a verify returns success only  *)
(* for the code that otpStore holds.                                       *)
(***************************************************************************)
C8_Rerequest ==
    [][\A p \in Procs :
         /\ (RequestStep(p) /\ Held /\ sent' # Entry.otp) =>
                /\ sent' \in Codes
                /\ verifyCheck(otpStore', ADMIN_EMAIL, Entry.otp, now) = "CodeMismatch"
                /\ verifyCheck(otpStore', ADMIN_EMAIL, sent', now) = "OK"
         /\ (VerifyStep(p) /\ response'.msg = "Verified") =>
                Held /\ body[p].otp = Entry.otp
      ]_vars

\* C8 witness: two requests have stored their challenge, one after the
\* other, and the code just sent is the one held
C8_Witness ==
    /\ Held
    /\ sent = Entry.otp
    /\ \A p \in Procs : p <= 2 => pc[p] = "send"

(***************************************************************************)
(* C9  A request, whatever the store held, leaves for its identity one     *)
(* entry with a generated code, verified = false and expires = the time of *)
(* the request + 10 minutes, and touches no other key.                     *)
(***************************************************************************)
C9_Request ==
    [][\A p \in Procs :
         RequestStep(p) =>
            /\ DOMAIN otpStore' = DOMAIN otpStore \cup {body[p].email}
            /\ otpStore'[body[p].email].otp \in Codes
            /\ otpStore'[body[p].email].expires = now + OTP_TTL
            /\ otpStore'[body[p].email].verified = FALSE
            /\ \A e \in DOMAIN otpStore \ {body[p].email} : otpStore'[e] = otpStore[e]
      ]_vars

\* C9 witness: a request has just stored its unverified challenge while a
\* changePassword that passed its check on a verified one is still in flight
C9_Witness ==
    /\ Held
    /\ ~Entry.verified
    /\ sent = Entry.otp
    /\ \E p, q \in Procs : pc[p] = "send" /\ pc[q] = "hash"

(***************************************************************************)
(* C10  A successful verify sets verified and changes nothing else (same   *)
(* code, same expires), so a changePassword whose check runs past the      *)
(* expires set by request returns Expired, deletes the entry and updates   *)
(* no credential, although the challenge was verified in time.             *)
(***************************************************************************)
C10_NoExtension ==
    [][\A p \in Procs :
         /\ (VerifyStep(p) /\ response'.msg = "Verified") =>
                /\ Held
                /\ DOMAIN otpStore' = DOMAIN otpStore
                /\ otpStore'[ADMIN_EMAIL] = [otp |-> Entry.otp,
                                             expires |-> Entry.expires,
                                             verified |-> TRUE]
         /\ (ChangePasswordStep(p) /\ Held /\ Entry.verified /\ now > Entry.expires) =>
                /\ response'.msg = "ExpiredSession"
                /\ response'.status = 400
                /\ pc'[p] = "idle"
                /\ NoUpdate
      ]_vars

\* C10 witness: a changePassword has just been refused as expired
C10_Witness ==
    /\ response.action = "changePassword"
    /\ response.msg = "ExpiredSession"
    /\ ~Held

(***************************************************************************)
(* C11  Concurrent verify calls with the stored code leave the store as    *)
(* sequential ones do: whatever other invocations are in flight, each such *)
(* verify on a live challenge runs its read and its write in one step,     *)
(* leaves exactly the entry it found with verified = true (same code, same *)
(* expires, no other key touched) and returns success; on an entry that an *)
(* earlier verify has marked, it changes nothing: no update is lost.       *)
(***************************************************************************)
C11_ConcurrentVerify ==
    [][\A p \in Procs :
         (VerifyStep(p) /\ Live(now) /\ body[p].otp = Entry.otp) =>
            /\ otpStore' = [e \in DOMAIN otpStore |->
                              IF e = ADMIN_EMAIL
                              THEN [otp |-> Entry.otp, expires |-> Entry.expires,
                                    verified |-> TRUE]
                              ELSE otpStore[e]]
            /\ Entry.verified => otpStore' = otpStore
            /\ response' = [action |-> "verify", status |-> 200, msg |-> "Verified"]
            /\ pc'[p] = "idle"
            /\ \A q \in Procs \ {p} : pc'[q] = pc[q] /\ body'[q] = body[q]
      ]_vars

\* C11 witness: of two verify calls in flight together with the stored code,
\* one has just returned success and the other has yet to run its check
C11_Witness ==
    /\ response.action = "verify"
    /\ response.msg = "Verified"
    /\ Held
    /\ Entry.verified
    /\ \E q \in Procs :
          /\ pc[q] \in {"q_users", "q_admin"}
          /\ body[q].action = "verify"
          /\ body[q].otp = Entry.otp

\* the number of execute calls an invocation suspended at `at` has issued
UpdatesIssued(at) ==
    IF at = "exec_users" THEN 1 ELSE IF at = "exec_admin" THEN 2 ELSE 0

\* invocation p returns the success of changePassword in this step
ChangePasswordSucceeds(p) ==
    pc[p] # "idle" /\ pc'[p] = "idle" /\ response'.msg = "PasswordChanged"

(***************************************************************************)
(* C12 as stated  Each successful changePassword issues a single           *)
(* credential update call to the account store.                            *)
(***************************************************************************)
C12_Original ==
    [][\A p \in Procs : ChangePasswordSucceeds(p) => UpdatesIssued(pc[p]) = 1]_vars

(***************************************************************************)
(* C12 amended  Each successful changePassword issues exactly two          *)
(* credential update calls, one after the other: an UPDATE of table users  *)
(* and then an UPDATE of table admin_users, both writing the same hash for *)
(* the same email.                                                         *)
(***************************************************************************)
C12_TwoUpdates ==
    [][\A p \in Procs :
         /\ ChangePasswordSucceeds(p) =>
                /\ UpdatesIssued(pc[p]) = 2
                /\ adminUsers' = updateRows(adminUsers, body[p].email, passwordHash[p])
                /\ users' = users
         /\ (UpdatesIssued(pc[p]) = 1 /\ UpdatesIssued(pc'[p]) = 2) =>
                /\ users' = updateRows(users, body[p].email, passwordHash[p])
                /\ adminUsers' = adminUsers
                /\ passwordHash'[p] = passwordHash[p]
                /\ body'[p] = body[p]
         /\ UpdatesIssued(pc'[p]) > UpdatesIssued(pc[p]) =>
                UpdatesIssued(pc'[p]) = UpdatesIssued(pc[p]) + 1
      ]_vars

\* C12 witness: a changePassword has just returned success with both tables
\* holding the hash it wrote
C12_Witness ==
    /\ response.msg = "PasswordChanged"
    /\ users # {}
    /\ adminUsers # {}
    /\ \A r \in users \cup adminUsers : r.password_hash # InitialCredential
    /\ \A r1 \in users, r2 \in adminUsers : r1.password_hash = r2.password_hash

\* the operations of the route
Operations == {"request", "verify", "changePassword"}

(***************************************************************************)
(* C13  Every operation called with an email outside the allowed set is    *)
(* rejected by the validation of the body, before the account store or     *)
(* otpStore is touched, with the status and message that an allowed email  *)
(* absent from the account store gets; no invocation goes past the         *)
(* validation with another email than the allowed one, otpStore is left    *)
(* as it was by both rejections and never holds a key outside the allowed  *)
(* set.                                                                    *)
(***************************************************************************)
C13_NotEligible ==
    [][/\ \A b \in Bodies :
            (b.action \in Operations /\ b.email \notin {Missing, ADMIN_EMAIL}) =>
                parseOutcome(b) = notInStore
       /\ \A p \in Procs :
            /\ (pc[p] = "json" /\ pc'[p] # "json") =>
                   /\ otpStore' = otpStore
                   /\ NoUpdate
                   /\ \/ pc'[p] = "q_users" /\ body'[p].email = ADMIN_EMAIL
                      \/ pc'[p] = "idle" /\ response'.status # 200
            /\ (/\ pc[p] = "q_admin" /\ pc'[p] # "q_admin"
                /\ selectRows(users \cup adminUsers, body[p].email) = {}
                /\ response'.msg # "ServerError") =>
                   /\ response'.status = parseOutcome([body[p] EXCEPT !.email = "someone@example.com"]).status
                   /\ response'.msg = parseOutcome([body[p] EXCEPT !.email = "someone@example.com"]).msg
                   /\ response'.action = body[p].action
                   /\ pc'[p] = "idle"
                   /\ otpStore' = otpStore
                   /\ NoUpdate
            /\ pc'[p] \notin {"idle", "json"} => body'[p].email = ADMIN_EMAIL
       /\ DOMAIN otpStore' \subseteq {ADMIN_EMAIL}
      ]_vars

\* C13 witness: an operation has just been refused as not registered while
\* the account store holds the admin, so that the email was not the allowed
\* one, and the challenge of the allowed email is still held
C13_Witness ==
    /\ response.action \in Operations
    /\ response.status = 404
    /\ response.msg = "NotRegistered"
    /\ users # {}
    /\ Held

(***************************************************************************)
(* C20  An invocation of changePassword whose code differs from the stored *)
(* one, while the challenge is verified and the time is not past its       *)
(* expires, ends in that step with the response 400 CodeMismatch; it       *)
(* issues no credential UPDATE, leaves otpStore as it was, and the check   *)
(* of changePassword with the stored code passes in the state it leaves.   *)
(***************************************************************************)
C20_StaleCode ==
    [][\A p \in Procs :
         (/\ ChangePasswordStep(p)
          /\ Held /\ Entry.verified /\ ~isExpired(Entry, now)
          /\ body[p].otp # Entry.otp) =>
             /\ response' = [action |-> "changePassword", status |-> 400,
                             msg |-> "CodeMismatch"]
             /\ pc'[p] = "idle"
             /\ \A q \in Procs : ~Updating(q) => ~Updating(q)'
             /\ NoUpdate
             /\ otpStore' = otpStore
             /\ changePasswordCheck(otpStore', ADMIN_EMAIL, Entry.otp, now') = "OK"
      ]_vars

\* C20 witness: changePassword has just been refused for its code while the
\* challenge is still held, verified and not past its expires
C20_Witness ==
    /\ response = [action |-> "changePassword", status |-> 400, msg |-> "CodeMismatch"]
    /\ Held /\ Entry.verified /\ ~isExpired(Entry, now)
    /\ \A p \in Procs : pc[p] = "idle"

\* the UserPayload part of the claims of a token
payloadOf(claims) ==
    [id |-> claims.id, email |-> claims.email, role |-> claims.role, name |-> claims.name]

RECURSIVE DecimalValue(_)
\* the number a string of decimal digits denotes
DecimalValue(str) ==
    IF str = <<>> THEN 0
    ELSE DecimalValue(SubSeq(str, 1, Len(str) - 1)) * 10
         + (CHOOSE d \in 0..9 : DecDigits[d + 1] = str[Len(str)])

\* str is made of decimal digits
IsDecimal(str) == \A i \in 1..Len(str) : \E d \in 1..10 : DecDigits[d] = str[i]

(***************************************************************************)
(* C14  Password hash round trip: a call of verifyPassword on a stored     *)
(* hash that hashPassword wrote returns true exactly when its password is  *)
(* the one that was hashed, whichever salt hashPassword drew; the stored   *)
(* hash has the form salt$key, and hashes of one secret under two salts    *)
(* differ.                                                                 *)
(***************************************************************************)
C14_RoundTrip ==
    /\ verdict.stored.password # NoSecret =>
          verdict.value = (verdict.password = verdict.stored.password)
    /\ credential.password # NoSecret =>
          /\ \E salt \in Salts :
                credential.hash = authHashPassword(credential.password, salt)
          /\ Len(SplitDollar(credential.hash)) = 2
          /\ \A s \in Secrets :
                verifyPassword(s, credential.hash) = (s = credential.password)
          /\ \A salt1, salt2 \in Salts :
                salt1 # salt2 =>
                    authHashPassword(credential.password, salt1)
                        # authHashPassword(credential.password, salt2)

\* C14 witness: a secret has been verified against its hash, and has since
\* been hashed again into another stored value
C14_Witness ==
    /\ verdict.value
    /\ credential.password = verdict.password
    /\ credential.hash # verdict.stored.hash

(***************************************************************************)
(* C15  verifyPassword is total and fails safe: called on a stored value   *)
(* that hashPassword did not write (a legacy bcrypt hash, a value with no  *)
(* salt part, no key part or no separator, a one-character salt on which   *)
(* the parsing throws inside the try block) it returns false, for every    *)
(* password; every call returns a boolean.                                 *)
(***************************************************************************)
C15_FailSafe ==
    /\ verdict.value \in BOOLEAN
    /\ verdict.stored.password = NoSecret => verdict.value = FALSE
    /\ credential.password = NoSecret =>
          \A s \in Secrets : verifyPassword(s, credential.hash) = FALSE

\* C15 witness: verifyPassword has been called on a stored value that has a
\* salt part and no key part
C15_Witness ==
    /\ verdict.password # NoSecret
    /\ verdict.stored.hash = <<"a", "b", "$">>
    /\ verdict.value = FALSE

(***************************************************************************)
(* C16  Token round trip: the token generateToken issues carries the       *)
(* payload it was given, iat, exp = iat + 24h and the jti; getCurrentUser  *)
(* on the cookie that holds it returns exactly its claims while the time   *)
(* in seconds is below exp, and null from then on.                         *)
(***************************************************************************)
C16_TokenRoundTrip ==
    /\ \A payload \in UserPayloads, uuid \in UUIDs :
          LET token == generateToken(payload, now, uuid)
          IN  /\ payloadOf(token.claims) = payload
              /\ token.claims.iat = epoch(now)
              /\ token.claims.exp = token.claims.iat + 24 * 60 * 60
              /\ token.claims.jti = uuid
              /\ verifyToken(token, now) = Returned({token.claims})
              /\ \A t \in SessionTimes :
                    verifyToken(token, t).value =
                        IF epoch(t) < token.claims.exp THEN {token.claims} ELSE {}
    /\ \A c \in authCookies(cookies) :
          /\ payloadOf(c.value.claims) \in UserPayloads
          /\ c.value.claims.exp = c.value.claims.iat + 24 * 60 * 60
          /\ c.value.claims.iat <= epoch(now)
          /\ (user # NoUser /\ user.jar = cookies) =>
                user.outcome.value =
                    IF epoch(now) < c.value.claims.exp THEN {c.value.claims} ELSE {}

\* C16 witness: the token of the cookie has been accepted in the last second
\* of its validity
C16_Witness ==
    /\ user.jar = cookies
    /\ \E c \in authCookies(cookies) :
          /\ user.outcome.value = {c.value.claims}
          /\ c.value.claims.iat > 0
          /\ epoch(now) = c.value.claims.exp - 1

\* the latest call of getCurrentUser returned null
ReturnedNull == user.outcome = Returned({})

(***************************************************************************)
(* C17  getCurrentUser returns a payload only when the request carries the *)
(* session cookie and jwtVerify accepts its value, and the payload is the  *)
(* claims of that token; with no cookie, an empty or malformed value, a    *)
(* signature that is not the key's, or an expired token it returns null,   *)
(* and it never throws.                                                    *)
(***************************************************************************)
C17_CurrentUser ==
    /\ ~user.outcome.thrown
    /\ user.outcome.value # {} =>
          \E c \in authCookies(user.jar) :
              /\ jwtVerify(c.value, JWT_SECRET, now) = "payload"
              /\ c.value.mac = hmac(JWT_SECRET, "HS256", c.value.claims)
              /\ epoch(now) < c.value.claims.exp
              /\ user.outcome.value = {c.value.claims}
    /\ authCookies(user.jar) = {} => ReturnedNull
    /\ \A c \in authCookies(user.jar) :
          (\/ c.value = EmptyToken
           \/ c.value.parts # 3
           \/ c.value.mac # hmac(JWT_SECRET, "HS256", c.value.claims)
           \/ c.value.claims.exp <= epoch(now)) => ReturnedNull

\* C17 witness: a request has carried a token whose claims were altered
\* under the old signature, before its expiry, and got null
C17_Witness ==
    /\ ReturnedNull
    /\ \E c \in authCookies(user.jar) :
          /\ c.value.parts = 3
          /\ c.value.mac.key = JWT_SECRET
          /\ c.value.mac.claims # c.value.claims
          /\ epoch(now) < c.value.claims.exp

\* the attributes of the session cookie that do not depend on the environment
FixedAttributes(c) ==
    /\ c.httpOnly
    /\ c.sameSite = "strict"
    /\ c.path = "/"
    /\ c.maxAge = TOKEN_EXPIRY
    /\ c.maxAge = c.value.claims.exp - c.value.claims.iat

\* C18 as stated: the session cookie is secure in every environment
C18_Original ==
    \A c \in authCookies(cookies) : FixedAttributes(c) /\ c.secure

(***************************************************************************)
(* C18  setAuthCookie stores the token in one cookie that is HTTP-only,    *)
(* strict same-site, of path / and of a max-age equal to the 24h validity  *)
(* of the token, in every environment; the cookie is secure exactly when   *)
(* NODE_ENV is 'production'.                                               *)
(***************************************************************************)
C18_CookieAttributes ==
    /\ Cardinality(authCookies(cookies)) <= 1
    /\ \A c \in authCookies(cookies) :
          /\ FixedAttributes(c)
          /\ c.secure = (env = "production")

\* C18 witness: outside production the browser holds a session cookie that
\* is not secure
C18_Witness ==
    /\ env = "development"
    /\ \E c \in authCookies(cookies) : ~c.secure /\ c.value.parts = 3

(***************************************************************************)
(* C19  Every code that request stores, and hands to sendOTPEmail, is      *)
(* made of exactly 6 decimal digits and denotes a number from 100000 to    *)
(* 999999, whatever 32-bit value the random source returned.               *)
(***************************************************************************)
C19_SixDigits ==
    /\ \A e \in DOMAIN otpStore :
          /\ Len(otpStore[e].otp) = 6
          /\ IsDecimal(otpStore[e].otp)
          /\ DecimalValue(otpStore[e].otp) >= OTP_BASE
          /\ DecimalValue(otpStore[e].otp) <= OTP_BASE + OTP_SPAN - 1
          /\ OTP_BASE + OTP_SPAN - 1 = 999999
    /\ sent # NoCode => Len(sent) = 6 /\ IsDecimal(sent)

\* C19 witness: the largest code is stored
C19_Witness ==
    Held /\ Entry.otp = <<"9", "9", "9", "9", "9", "9">>

(***************************************************************************)
(* C21  A changePassword that returns success deletes only the challenge   *)
(* it validated: when the challenge held at its last step is unverified,   *)
(* hence one that a request stored after the check, otpStore is left as it *)
(* is.                                                                     *)
(***************************************************************************)
C21_KeepsNewer ==
    [][\A p \in Procs :
         (ChangePasswordSucceeds(p) /\ Held /\ ~Entry.verified) =>
             otpStore' = otpStore
      ]_vars

\* invocation p is suspended in case 'changePassword', past its check
PastCheck(p) == pc[p] \in {"hash", "exec_users", "exec_admin"}

(***************************************************************************)
(* C22  When hashPassword or one of the credential UPDATEs rejects, the    *)
(* invocation ends with the response 500 ServerError and leaves otpStore   *)
(* as it was; an invocation past its check changes otpStore only in the    *)
(* step in which the second UPDATE has settled and it returns success,     *)
(* and then by deleting the key.                                           *)
(***************************************************************************)
C22_FailureKeeps ==
    [][\A p \in Procs :
         /\ (PastCheck(p) /\ pc'[p] = "idle" /\ response'.msg # "PasswordChanged") =>
                /\ response' = [action |-> "changePassword", status |-> 500,
                                msg |-> "ServerError"]
                /\ otpStore' = otpStore
                /\ pc[p] = "hash" => NoUpdate
                /\ adminUsers' = adminUsers
         /\ (PastCheck(p) /\ pc'[p] # pc[p] /\ otpStore' # otpStore) =>
                /\ pc[p] = "exec_admin"
                /\ UpdatesIssued(pc[p]) = 2
                /\ response'.msg = "PasswordChanged"
                /\ otpStore' = mapDelete(otpStore, body[p].email)
      ]_vars

\* C22 witness: the admin_users UPDATE has rejected after the users UPDATE was
\* applied; the caller got the server failure and the verified challenge is
\* still held
C22_Witness ==
    /\ response = [action |-> "changePassword", status |-> 500, msg |-> "ServerError"]
    /\ \A p \in Procs : pc[p] = "idle"
    /\ \E r \in users : r.password_hash # InitialCredential
    /\ adminUsers = {AdminRow}
    /\ Held /\ Entry.verified

====
